---------------------------- MODULE Spec2Model ----------------------------
(***************************************************************************)
(* Ledger accrual engine of the investment backend: DailyProfitJob         *)
(* (execute / processInvestment / completeInvestment) and the callers that *)
(* invoke it (cron callback, admin trigger, testProfitJob script).         *)
(*                                                                         *)
(* Numbers.  Money (balance_usd, total_earned, ledger amount_usd) is held  *)
(* in cents, amount_usd of an investment in cents, daily_percent in        *)
(* hundredths of a percent (150 = 1.50 %).  The code computes              *)
(* amount * percent * days / 100 in dollars; in these units that is        *)
(* amount * percent * days / (100 * PctScale).  Principals are whole       *)
(* hundreds of dollars, so every quotient is exact and the arithmetic of   *)
(* the model is the exact decimal arithmetic; binary rounding of           *)
(* parseFloat values is outside the model.                                 *)
(*                                                                         *)
(* Time is counted in ticks, TicksPerDay ticks to a day, so that           *)
(* Math.floor((now - start) / day) has something to round.                 *)
(***************************************************************************)
EXTENDS Integers, Sequences, FiniteSets, TLC

\* ------------------------------------------------------------------ bounds
NumInv      == 2      \* investments in the store
MaxTime     == 5      \* last tick of the clock
TicksPerDay == 2      \* clock resolution

\* ------------------------------------------------- representation constant
PctScale == 100       \* daily_percent is kept in hundredths of a percent

\* ------------------------------------------------------------ static data
InvIds == 1..NumInv
Users  == {1, 2}

\* callers of DailyProfitJob.execute and the process each one runs in
ServerInvocs == {"cron", "admin"}
AllInvocs    == {"cron", "admin", "cli"}
Procs        == {"server", "cli"}
ProcOf(i)    == IF i = "cli" THEN "cli" ELSE "server"

\* plan rows (seeded plans, scaled down in duration)
PlanNames       == {"Starter", "Professional"}
PlanOf(k)       == IF k % 2 = 1 THEN "Starter" ELSE "Professional"
DurationDays(p) == IF p = "Starter" THEN 2 ELSE 1
DailyPct(p)     == IF p = "Starter" THEN 150 ELSE 200

\* columns of an active_investments row that never change after creation
UserOf(k)    == ((k - 1) % 2) + 1
AmountUsd(k) == 10000 * k
StartDate(k) == (k - 1) % 2
EndDate(k)   == StartDate(k) + DurationDays(PlanOf(k)) * TicksPerDay
DailyPercent(k) == DailyPct(PlanOf(k))

Max(a, b) == IF a >= b THEN a ELSE b

\* the account the request handlers act on, and the requests they serve
Holder         == 1
Funds          == 10000   \* balance of Holder when the requests are made
InvestAmount   == 10000   \* amount_usd of the createInvestment request
WithdrawAmount == 10000   \* amount_usd of the pending withdrawal
DepositAmount  == 5000    \* amount_usd of the pending deposit
Handlers  == {"createInvestment", "approveWithdrawal", "approveDeposit"}
NoRequest == [pc |-> "idle", balance_usd |-> 0]

\* every investment in the store was created at its start_date, so the
\* clock starts at the latest of them
FirstTick == CHOOSE t \in 0..MaxTime : /\ \A k \in InvIds : StartDate(k) <= t
                                       /\ \E k \in InvIds : StartDate(k) = t

DaysElapsedCeil(k, t) == (t - StartDate(k) + TicksPerDay - 1) \div TicksPerDay
\* Math.floor((now - startDate) / (1000*60*60*24))
DaysElapsed(k, t) == (t - StartDate(k)) \div TicksPerDay

\* (amount_usd * daily_percent * days) / 100
Profit(k, days) == (AmountUsd(k) * DailyPercent(k) * days) \div (100 * PctScale)

\* expectedTotalProfit of processInvestment
ExpectedTotalProfit(k, t) == Profit(k, DaysElapsed(k, t))

\* totalExpectedProfit of completeInvestment: investment.plan.duration_days,
\* the plan row findMany joined to the investment
TotalExpectedProfit(snap) == Profit(snap.id, snap.plan.duration_days)

\* ----------------------------------------------------------------- state
VARIABLES
  now,        \* wall clock
  inv,        \* active_investments rows: [status, total_earned]
  balance,    \* users.balance_usd
  ledger,     \* transactions table, append only
  isRunning,  \* DailyProfitJob.isRunning, one per process
  pc,         \* position of each invocation of execute
  list,       \* activeInvestments still to be processed by the invocation
  cur,        \* the processInvestment / completeInvestment call in progress
  results,    \* results object of the invocation
  ret,        \* the value execute has just returned, until the caller has
              \* dealt with it
  listed,     \* history: the ids the invocation's findMany returned, and when
  creditAt,   \* history: per investment, `now` of the last call that credited it
  job,        \* scheduledJobs.get('dailyProfitJob'): whether the entry is in
              \* the map, the cron task (started or stopped, and the
              \* `destroyed` the status reads) and the isRunning field
  retry,      \* history: the investment whose transaction failed most
              \* recently and has not been counted as processed since, 0 if
              \* none
  paid,       \* history: what the invocation's run has credited to accounts
              \* so far
  plan,       \* investment_plans rows: [daily_percentage, duration_days]
  withdrawal, \* the withdrawals row an admin may approve
  deposit,    \* the deposits row an admin may approve
  handler,    \* position of each request handler that writes a balance,
              \* and the balance it read
  created     \* active_investments rows created by createInvestment

vars == <<now, inv, balance, ledger, isRunning, pc, list, cur, results, ret,
          listed, creditAt, job, retry, paid, plan, withdrawal, deposit,
          handler, created>>

NoResults == [totalInvestments |-> 0, processedInvestments |-> 0,
              completedInvestments |-> 0, totalProfitDistributed |-> 0,
              errors |-> <<>>, emailsSent |-> 0]

\* a call of processInvestment: the investment, the branch taken, the amount
\* computed, the total it aims at, statements issued so far, its `now`
Call(k, path, profit, total, t) ==
  [id |-> k, path |-> path, profit |-> profit, total |-> total, pos |-> 0,
   at |-> t, emailSent |-> FALSE]
NoCall == Call(0, "none", 0, 0, 0)

Returned(i, ok, msg, r) ==
  [by |-> i, success |-> ok, message |-> msg, results |-> r]
NoReturn          == Returned("none", FALSE, "none", NoResults)
AlreadyRunning(i) == Returned(i, FALSE, "Job already running", NoResults)

NoListing == [ids |-> {}, at |-> 0]

\* the server has started: the job object is constructed and the scheduler
\* has registered and started the daily task
Init ==
  /\ now = FirstTick
  /\ inv = [k \in InvIds |-> [status |-> "ACTIVE", total_earned |-> 0]]
  /\ balance = [u \in Users |-> 0]
  /\ ledger = <<>>
  /\ isRunning = [p \in Procs |-> FALSE]
  /\ pc = [i \in AllInvocs |-> "idle"]
  /\ list = [i \in AllInvocs |-> <<>>]
  /\ cur = [i \in AllInvocs |-> NoCall]
  /\ results = [i \in AllInvocs |-> NoResults]
  /\ ret = NoReturn
  /\ listed = [i \in AllInvocs |-> NoListing]
  /\ creditAt = [k \in InvIds |-> -1]
  /\ job = [registered |-> TRUE, task |-> "Scheduled", isRunning |-> FALSE,
            destroyed |-> FALSE]
  /\ retry = 0
  /\ paid = [i \in AllInvocs |-> 0]
  /\ plan = [p \in PlanNames |-> [daily_percentage |-> DailyPct(p),
                                  duration_days |-> DurationDays(p)]]
  /\ withdrawal = [status |-> "NONE", user |-> Holder, amount_usd |-> 0]
  /\ deposit = [status |-> "NONE", user |-> Holder, amount_usd |-> 0]
  /\ handler = [h \in Handlers |-> NoRequest]
  /\ created = << >>

\* ------------------------------------------------------- Ledger Store ops
\* A ledger row.  The table has no investment column; "inv" records which
\* investment's processing wrote the row so that per-investment sums can be
\* stated.
Entry(u, ty, amt, k) == [user |-> u, type |-> ty, amount |-> amt, inv |-> k]

DailyOpsNoRow(k, newProfit) ==
  << [op |-> "incBalance", user |-> UserOf(k), id |-> k, amount |-> newProfit],
     [op |-> "incEarned",  user |-> UserOf(k), id |-> k, amount |-> newProfit] >>
\* statements issued inside prisma.$transaction by processInvestment
DailyOps(k, newProfit) ==
  << [op |-> "incBalance", user |-> UserOf(k), id |-> k, amount |-> newProfit],
     [op |-> "incEarned",  user |-> UserOf(k), id |-> k, amount |-> newProfit],
     [op |-> "create",     user |-> UserOf(k), id |-> k, amount |-> newProfit] >>

CompleteOpsRemaining(k, remainingProfit, totalExpectedProfit) ==
  (IF remainingProfit > 0
     THEN << [op |-> "incBalance", user |-> UserOf(k), id |-> k,
              amount |-> remainingProfit],
             [op |-> "create", user |-> UserOf(k), id |-> k,
              amount |-> remainingProfit] >>
     ELSE << >>)
  \o << [op |-> "complete", user |-> UserOf(k), id |-> k,
         amount |-> remainingProfit],
        [op |-> "createCompletion", user |-> UserOf(k), id |-> k,
         amount |-> 0] >>
\* statements issued inside prisma.$transaction by completeInvestment
CompleteOps(k, remainingProfit, totalExpectedProfit) ==
  (IF remainingProfit > 0
     THEN << [op |-> "incBalance", user |-> UserOf(k), id |-> k,
              amount |-> remainingProfit],
             [op |-> "create", user |-> UserOf(k), id |-> k,
              amount |-> remainingProfit] >>
     ELSE << >>)
  \o << [op |-> "complete", user |-> UserOf(k), id |-> k,
         amount |-> totalExpectedProfit],
        [op |-> "createCompletion", user |-> UserOf(k), id |-> k,
         amount |-> 0] >>

\* effect of one statement on the rows
ApplyOp(s, o) ==
  CASE o.op = "incBalance" ->
         [s EXCEPT !.balance[o.user] = @ + o.amount]
    [] o.op = "incEarned" ->
         [s EXCEPT !.inv[o.id].total_earned = @ + o.amount]
    [] o.op = "complete" ->
         [s EXCEPT !.inv[o.id] = [status |-> "COMPLETED",
                                  total_earned |-> o.amount]]
    [] o.op = "create" ->
         [s EXCEPT !.ledger = Append(@, Entry(o.user, "PROFIT", o.amount, o.id))]
    [] o.op = "createCompletion" ->
         [s EXCEPT !.ledger = Append(@, Entry(o.user, "INVESTMENT", 0, o.id))]

RECURSIVE ApplyOps(_, _)
ApplyOps(s, ops) ==
  IF ops = << >> THEN s ELSE ApplyOps(ApplyOp(s, Head(ops)), Tail(ops))

Rows == [inv |-> inv, balance |-> balance, ledger |-> ledger]

\* what a committed transaction leaves in the store
Committed(ops) == ApplyOps(Rows, ops)

NotRolledBack(issued) == ApplyOps(Rows, issued)
\* what an aborted transaction leaves in the store: nothing of the
\* statements it had issued
RolledBack(issued) == Rows

\* prisma.activeInvestment.findMany({ where: { status: 'ACTIVE' } }): the
\* rows come back in an order the query does not fix
AnyStatusIds == InvIds
ActiveIds == {k \in InvIds : inv[k].status = "ACTIVE"}
Orderings(S) ==
  {q \in [1..Cardinality(S) -> S] : \A a, b \in 1..Cardinality(S) :
                                         a # b => q[a] # q[b]}
SnapshotStale(k) == [id |-> k, total_earned |-> 0, plan |-> plan[PlanOf(k)]]
Snapshot(k) == [id |-> k, total_earned |-> inv[k].total_earned,
                plan |-> plan[PlanOf(k)]]

\* --------------------------------------------------- DailyProfitJob.execute
\* A caller resumes right after execute returns, before any other callback
\* of the event loop runs: nothing else moves while a return value is pending.
Settled == \A j \in AllInvocs : pc[j] # "returned"

\* cron.schedule(expr, callback, { scheduled: false }); task.start() /
\* task.stop(): node-cron runs the callback of a task only while the task is
\* started.  The admin trigger and the script call execute directly.
MayInvokeAlways(i) == TRUE
MayInvoke(i) == i = "cron" => job.task = "Scheduled"

GuardOff(i) == FALSE
\* if (this.isRunning)
Guard(i) == isRunning[ProcOf(i)]

FlagAfterFinally(i) == [isRunning EXCEPT ![ProcOf(i)] = FALSE]
\* the early return sits before the try block, so the finally block that
\* clears the flag is not run for it
FlagAfterEarlyReturn(i) == isRunning

\* return { success: false, message: 'Job already running' }
ExecuteSkip(i) ==
  /\ pc[i] = "idle"
  /\ MayInvoke(i)
  /\ Guard(i)
  /\ ret' = AlreadyRunning(i)
  /\ isRunning' = FlagAfterEarlyReturn(i)
  /\ pc' = [pc EXCEPT ![i] = "returned"]
  /\ UNCHANGED <<now, inv, balance, ledger, list, cur, results, listed,
                 creditAt, job, retry, paid, plan, withdrawal, deposit,
                 handler, created>>

\* this.isRunning = true; results = { ...zeros }
ExecuteStart(i) ==
  /\ pc[i] = "idle"
  /\ MayInvoke(i)
  /\ ~Guard(i)
  /\ isRunning' = [isRunning EXCEPT ![ProcOf(i)] = TRUE]
  /\ results' = [results EXCEPT ![i] = NoResults]
  /\ pc' = [pc EXCEPT ![i] = "listing"]
  /\ UNCHANGED <<now, inv, balance, ledger, list, cur, ret, listed, creditAt,
                 job, retry, paid, plan, withdrawal, deposit, handler,
                 created>>

ListOk(i) ==
  /\ pc[i] = "listing"
  /\ \E q \in Orderings(ActiveIds) :
       /\ list' = [list EXCEPT ![i] = [n \in 1..Len(q) |-> Snapshot(q[n])]]
       /\ results' = [results EXCEPT ![i].totalInvestments = Len(q)]
  /\ listed' = [listed EXCEPT ![i] = [ids |-> ActiveIds, at |-> now]]
  /\ pc' = [pc EXCEPT ![i] = "loop"]
  /\ UNCHANGED <<now, inv, balance, ledger, isRunning, cur, ret, creditAt,
                 job, retry, paid, plan, withdrawal, deposit, handler,
                 created>>

NotReleased(i) == isRunning
\* finally { this.isRunning = false }
Released(i) == [isRunning EXCEPT ![ProcOf(i)] = FALSE]

CaughtSwallowed(i) ==
  Returned(i, TRUE, "Daily profit calculation completed successfully",
           results[i])
\* catch (error) { return { success: false, message, error, results } }
Caught(i) ==
  Returned(i, FALSE, "Daily profit calculation failed", results[i])

\* findMany throws: outer catch, then finally
ListFail(i) ==
  /\ pc[i] = "listing"
  /\ ret' = Caught(i)
  /\ isRunning' = Released(i)
  /\ pc' = [pc EXCEPT ![i] = "returned"]
  /\ UNCHANGED <<now, inv, balance, ledger, list, cur, results, listed,
                 creditAt, job, retry, paid, plan, withdrawal, deposit,
                 handler, created>>

\* the loop has run out of investments: return, then finally
Finish(i) ==
  /\ pc[i] = "loop"
  /\ list[i] = << >>
  /\ ret' = Returned(i, TRUE,
                     "Daily profit calculation completed successfully",
                     results[i])
  /\ isRunning' = Released(i)
  /\ pc' = [pc EXCEPT ![i] = "returned"]
  /\ UNCHANGED <<now, inv, balance, ledger, list, cur, results, listed,
                 creditAt, job, retry, paid, plan, withdrawal, deposit,
                 handler, created>>

\* what the caller makes of the value: the cron callback and the script log
\* 'completed successfully' or 'failed' on result.success; the admin handler
\* answers 'executed successfully' or 'completed with errors' on it
Says(i, r) ==
  IF i = "admin"
    THEN (IF r.success THEN "executed successfully"
                       ELSE "completed with errors")
    ELSE (IF r.success THEN "completed successfully" ELSE "failed")

\* the caller's code after `await dailyProfitJob.execute()`: the cron
\* callback logs the result, the admin controller logs and answers, the
\* script prints and ends its process (process.exit).  What the caller says
\* is Says(i, ret); it touches none of the rows or flags.  The invocation is
\* over.
Resume(i) ==
  /\ pc[i] = "returned"
  /\ ret' = NoReturn
  /\ results' = [results EXCEPT ![i] = NoResults]
  /\ listed' = [listed EXCEPT ![i] = NoListing]
  /\ paid' = [paid EXCEPT ![i] = 0]
  /\ pc' = [pc EXCEPT ![i] = IF i = "cli" THEN "exited" ELSE "idle"]
  /\ UNCHANGED <<now, inv, balance, ledger, isRunning, list, cur, creditAt,
                 job, retry, plan, withdrawal, deposit, handler, created>>

CountedGross(r, c) ==
  [r EXCEPT !.processedInvestments = @ + 1,
            !.totalProfitDistributed = @ + c.total,
            !.completedInvestments = @ + (IF c.path = "complete" THEN 1 ELSE 0),
            !.emailsSent = @ + (IF c.emailSent THEN 1 ELSE 0)]
\* results after processInvestment returned { success: true, ... }
Counted(r, c) ==
  [r EXCEPT !.processedInvestments = @ + 1,
            !.totalProfitDistributed = @ + c.profit,
            !.completedInvestments = @ + (IF c.path = "complete" THEN 1 ELSE 0),
            !.emailsSent = @ + (IF c.emailSent THEN 1 ELSE 0)]

\* results after processInvestment returned { success: false, error }
Failed(r, c) == [r EXCEPT !.errors = Append(@, c.id)]

RestUnlessFailed(i) == IF cur[i].path = "failed" THEN << >> ELSE Tail(list[i])
\* for (const investment of activeInvestments): whatever the call returned,
\* the loop goes on with the investments after it
Rest(i) == Tail(list[i])

\* body of the for loop after `await this.processInvestment(...)`
Account(i) ==
  /\ pc[i] = "called"
  /\ results' = [results EXCEPT ![i] =
                   IF cur[i].path = "failed" THEN Failed(@, cur[i])
                                             ELSE Counted(@, cur[i])]
  /\ list' = [list EXCEPT ![i] = Rest(i)]
  /\ retry' = IF cur[i].path \in {"daily", "complete"} /\ cur[i].id = retry
                THEN 0 ELSE retry
  /\ cur' = [cur EXCEPT ![i] = NoCall]
  /\ pc' = [pc EXCEPT ![i] = "loop"]
  /\ UNCHANGED <<now, inv, balance, ledger, isRunning, ret, listed, creditAt,
                 job, paid, plan, withdrawal, deposit, handler, created>>

\* ------------------------------------------ DailyProfitJob.processInvestment
HasEndedLate(k, t) == t > EndDate(k) + TicksPerDay
\* now > endDate
HasEnded(k, t) == t > EndDate(k)

NewProfitGross(snap, t) == ExpectedTotalProfit(snap.id, t)
\* newProfit = expectedTotalProfit - alreadyEarned, from the listed row
NewProfit(snap, t) == ExpectedTotalProfit(snap.id, t) - snap.total_earned

RemainingProfitFull(snap) == TotalExpectedProfit(snap)
\* remainingProfit = Math.max(0, totalExpectedProfit - alreadyEarned)
RemainingProfit(snap) == Max(0, TotalExpectedProfit(snap) - snap.total_earned)

\* the branch processInvestment takes for a listed row at time t
Branch(snap, t) ==
  IF HasEnded(snap.id, t) THEN "complete"
  ELSE IF DaysElapsed(snap.id, t) < 1 THEN "skip"
  ELSE IF NewProfit(snap, t) <= 0 THEN "skip"
  ELSE "daily"

\* processInvestment / completeInvestment up to the first await
Begin(i) ==
  /\ pc[i] = "loop"
  /\ list[i] # << >>
  /\ LET snap == Head(list[i])
         k    == snap.id
         b    == Branch(snap, now)
     IN  CASE b = "complete" ->
                /\ cur' = [cur EXCEPT ![i] =
                     Call(k, b, RemainingProfit(snap), TotalExpectedProfit(snap),
                          now)]
                /\ pc' = [pc EXCEPT ![i] = "tx"]
           [] b = "daily" ->
                /\ cur' = [cur EXCEPT ![i] =
                     Call(k, b, NewProfit(snap, now),
                          ExpectedTotalProfit(k, now), now)]
                /\ pc' = [pc EXCEPT ![i] = "tx"]
           [] b = "skip" ->
                \* 'Investment too recent' / 'No new profit to distribute'
                /\ cur' = [cur EXCEPT ![i] =
                     Call(k, b, 0, ExpectedTotalProfit(k, now), now)]
                /\ pc' = [pc EXCEPT ![i] = "called"]
  /\ UNCHANGED <<now, inv, balance, ledger, isRunning, list, results, ret,
                 listed, creditAt, job, retry, paid, plan, withdrawal,
                 deposit, handler, created>>

\* the statements of the transaction the current call runs
TxOps(c) ==
  IF c.path = "complete" THEN CompleteOps(c.id, c.profit, c.total)
                         ELSE DailyOps(c.id, c.profit)

\* one statement of the transaction is issued; nothing is visible yet
TxStep(i) ==
  /\ pc[i] = "tx"
  /\ cur[i].pos < Len(TxOps(cur[i]))
  /\ cur' = [cur EXCEPT ![i].pos = @ + 1]
  /\ UNCHANGED <<now, inv, balance, ledger, isRunning, pc, list, results, ret,
                 listed, creditAt, job, retry, paid, plan, withdrawal,
                 deposit, handler, created>>

\* all statements issued: the transaction commits
TxCommit(i) ==
  /\ pc[i] = "tx"
  /\ cur[i].pos = Len(TxOps(cur[i]))
  /\ LET s == Committed(TxOps(cur[i]))
     IN  /\ inv' = s.inv
         /\ balance' = s.balance
         /\ ledger' = s.ledger
  /\ creditAt' = [creditAt EXCEPT ![cur[i].id] =
                    IF cur[i].profit > 0 THEN cur[i].at ELSE @]
  /\ paid' = [paid EXCEPT ![i] =
                @ + Committed(TxOps(cur[i])).balance[UserOf(cur[i].id)]
                  - balance[UserOf(cur[i].id)]]
  /\ pc' = [pc EXCEPT ![i] = "email"]
  /\ UNCHANGED <<now, isRunning, list, cur, results, ret, listed, job, retry,
                 plan, withdrawal, deposit, handler, created>>

AfterCatchNotify == "email"
\* catch (error) { log; return { success: false, error } }: the send, which
\* follows the transaction inside the try block, is not reached
AfterCatch == "called"

\* a statement or the commit throws: rollback, catch, { success: false }
TxFail(i) ==
  /\ pc[i] = "tx"
  /\ LET s == RolledBack(SubSeq(TxOps(cur[i]), 1, cur[i].pos))
     IN  /\ inv' = s.inv
         /\ balance' = s.balance
         /\ ledger' = s.ledger
  /\ cur' = [cur EXCEPT ![i].path = "failed"]
  /\ retry' = cur[i].id
  /\ pc' = [pc EXCEPT ![i] = AfterCatch]
  /\ UNCHANGED <<now, isRunning, list, results, ret, listed, creditAt, job,
                 paid, plan, withdrawal, deposit, handler, created>>

AfterSendFatal(c, sent) ==
  IF sent THEN [c EXCEPT !.emailSent = TRUE] ELSE [c EXCEPT !.path = "failed"]
\* try { await emailService.send...; emailSent = true } catch { log }: a
\* send that throws leaves emailSent false and nothing else
AfterSend(c, sent) == [c EXCEPT !.emailSent = sent]

\* the notification send returns (sent) or throws (caught, logged);
\* processInvestment returns { success: true, profitAmount, emailSent }
Email(i, sent) ==
  /\ pc[i] = "email"
  /\ cur' = [cur EXCEPT ![i] = AfterSend(@, sent)]
  /\ pc' = [pc EXCEPT ![i] = "called"]
  /\ UNCHANGED <<now, inv, balance, ledger, isRunning, list, results, ret,
                 listed, creditAt, job, retry, paid, plan, withdrawal,
                 deposit, handler, created>>

\* ------------------------------------------------------------------ clock
Tick ==
  /\ now < MaxTime
  /\ now' = now + 1
  /\ UNCHANGED <<inv, balance, ledger, isRunning, pc, list, cur, results, ret,
                 listed, creditAt, job, retry, paid, plan, withdrawal,
                 deposit, handler, created>>

\* ------------------------------------------------ JobScheduler stop/start
StopJobCancels ==
  /\ job.registered
  /\ job' = [job EXCEPT !.task = "Stopped", !.isRunning = FALSE]
  /\ list' = [i \in AllInvocs |-> << >>]
  /\ UNCHANGED <<now, inv, balance, ledger, isRunning, pc, cur, results, ret,
                 listed, creditAt, retry, paid, plan, withdrawal, deposit,
                 handler, created>>
\* stopJob(jobName): if the entry exists, job.task.stop(); job.isRunning =
\* false.  stopAllJobs does the same for every entry.
StopJob ==
  /\ job.registered
  /\ job' = [job EXCEPT !.task = "Stopped", !.isRunning = FALSE]
  /\ UNCHANGED <<now, inv, balance, ledger, isRunning, pc, list, cur, results,
                 ret, listed, creditAt, retry, paid, plan, withdrawal,
                 deposit, handler, created>>

\* startJob(jobName): if the entry exists, job.task.start(); job.isRunning =
\* true
StartJob ==
  /\ job.registered
  /\ job' = [job EXCEPT !.task = "Scheduled", !.isRunning = TRUE]
  /\ UNCHANGED <<now, inv, balance, ledger, isRunning, pc, list, cur, results,
                 ret, listed, creditAt, retry, paid, plan, withdrawal,
                 deposit, handler, created>>

\* shutdown(): stopAllJobs(); scheduledJobs.clear(); isInitialized = false
Shutdown ==
  /\ job.registered
  /\ job' = [job EXCEPT !.task = "Stopped", !.isRunning = FALSE,
                        !.registered = FALSE]
  /\ UNCHANGED <<now, inv, balance, ledger, isRunning, pc, list, cur, results,
                 ret, listed, creditAt, retry, paid, plan, withdrawal,
                 deposit, handler, created>>

\* getJobsStatus().jobs: one element per entry of the map, isRunning and
\* nextRun both read from task.destroyed, a field that neither stopJob nor
\* startJob nor the task's own stop() and start() assign
GetJobsStatus(j) ==
  IF ~j.registered THEN << >>
  ELSE << [isRunning |-> ~j.destroyed,
           nextRun |-> IF ~j.destroyed THEN "Scheduled"
                                       ELSE "Not scheduled"] >>

\* --------------------------------------------------------- specifications
Step(i) ==
  \/ ExecuteSkip(i)
  \/ ExecuteStart(i)
  \/ ListOk(i)
  \/ ListFail(i)
  \/ Begin(i)
  \/ TxStep(i)
  \/ TxCommit(i)
  \/ TxFail(i)
  \/ \E sent \in BOOLEAN : Email(i, sent)
  \/ Account(i)
  \/ Finish(i)

\* the server process: the cron callback and the admin trigger share one
\* DailyProfitJob instance
Next ==
  \/ Settled /\ Tick
  \/ \E i \in ServerInvocs : (Settled /\ Step(i)) \/ Resume(i)
Spec == Init /\ [][Next]_vars

\* The server process with the admin's job control: the daily job can be
\* stopped and started at any moment, also while a run is in progress.
NextControl ==
  \/ Next
  \/ Settled /\ StopJob
  \/ Settled /\ StartJob
  \/ Settled /\ Shutdown
SpecControl == Init /\ [][NextControl]_vars

\* The server process together with the testProfitJob script, a second
\* process with a DailyProfitJob instance of its own over the same database.
\* The script calls execute once and exits.  The clock is moved only between
\* runs here: these are the behaviours in which a run takes no measurable
\* time, a subset of what the two processes can do, used to exhibit
\* interleavings and not to establish invariants.
Quiet == \A j \in AllInvocs : pc[j] \in {"idle", "exited"}
NextTwoProc ==
  \/ Quiet /\ Tick
  \/ \E i \in AllInvocs : (Settled /\ Step(i)) \/ Resume(i)
SpecTwoProc == Init /\ [][NextTwoProc]_vars

\* ----------------------------------------------------------- plan edits
\* Plans are rows of investment_plans written by admin tooling outside the
\* engine; an edit rewrites one column of one row.  The specification
\* below takes edits between runs only.
RateEdits     == {250}
DurationEdits == {1, 3}
EditRate(p, r) ==
  /\ plan[p].daily_percentage # r
  /\ plan' = [plan EXCEPT ![p].daily_percentage = r]
  /\ UNCHANGED <<now, inv, balance, ledger, isRunning, pc, list, cur, results,
                 ret, listed, creditAt, job, retry, paid, withdrawal, deposit,
                 handler, created>>
EditDuration(p, d) ==
  /\ plan[p].duration_days # d
  /\ plan' = [plan EXCEPT ![p].duration_days = d]
  /\ UNCHANGED <<now, inv, balance, ledger, isRunning, pc, list, cur, results,
                 ret, listed, creditAt, job, retry, paid, withdrawal, deposit,
                 handler, created>>
NextPlanEdit ==
  \/ Next
  \/ \E p \in PlanNames, r \in RateEdits : Quiet /\ EditRate(p, r)
  \/ \E p \in PlanNames, d \in DurationEdits : Quiet /\ EditDuration(p, d)
SpecPlanEdit == Init /\ [][NextPlanEdit]_vars

\* ------------------------------------------------------ request handlers
\* The other writers of users.balance_usd: createInvestment of the account's
\* holder, approveWithdrawal and approveDeposit of an admin.  Each handler
\* first reads (findUnique) and answers 400 or goes on, then runs one
\* prisma.$transaction.  The deposit's user has no referrer.
DecrementFromRead(current, read, amount) == read - amount
\* balance_usd: { decrement: amount }
Decrement(current, read, amount) == current - amount
\* balance_usd: { increment: amount }
Increment(current, read, amount) == current + amount

\* a handler moves on; `read` is the balance it keeps for its next steps
Answer(h, to, read) == [handler EXCEPT ![h] = [pc |-> to, balance_usd |-> read]]

CreateInvestmentCheck ==
  /\ handler["createInvestment"].pc = "idle"
  /\ handler' = IF balance[Holder] < InvestAmount
                  THEN Answer("createInvestment", "refused", 0)
                  ELSE Answer("createInvestment", "checked", balance[Holder])
  /\ UNCHANGED <<now, inv, balance, ledger, isRunning, pc, list, cur,
                 results, ret, listed, creditAt, job, retry, paid, plan,
                 withdrawal, deposit, created>>
CreateInvestmentCommit ==
  /\ handler["createInvestment"].pc = "checked"
  /\ balance' = [balance EXCEPT ![Holder] =
                   Decrement(@, handler["createInvestment"].balance_usd,
                             InvestAmount)]
  /\ created' = Append(created,
                       [user_id |-> Holder, plan_id |-> "Starter",
                        amount_usd |-> InvestAmount,
                        daily_percent |-> plan["Starter"].daily_percentage,
                        status |-> "ACTIVE"])
  /\ ledger' = Append(ledger, Entry(Holder, "INVESTMENT", -InvestAmount, 0))
  /\ handler' = Answer("createInvestment", "done", 0)
  /\ UNCHANGED <<now, inv, isRunning, pc, list, cur, results, ret, listed,
                 creditAt, job, retry, paid, plan, withdrawal, deposit>>

ApproveWithdrawalCheck ==
  /\ handler["approveWithdrawal"].pc = "idle"
  /\ handler' = Answer("approveWithdrawal",
                        IF withdrawal.status # "PENDING"
                          THEN "refused" ELSE "checked", 0)
  /\ UNCHANGED <<now, inv, balance, ledger, isRunning, pc, list, cur,
                 results, ret, listed, creditAt, job, retry, paid, plan,
                 withdrawal, deposit, created>>
ApproveWithdrawalCommit ==
  /\ handler["approveWithdrawal"].pc = "checked"
  /\ withdrawal' = [withdrawal EXCEPT !.status = "APPROVED"]
  /\ balance' = [balance EXCEPT ![withdrawal.user] =
                   Decrement(@, handler["approveWithdrawal"].balance_usd,
                             withdrawal.amount_usd)]
  /\ ledger' = Append(ledger, Entry(withdrawal.user, "WITHDRAWAL",
                                    -withdrawal.amount_usd, 0))
  /\ handler' = Answer("approveWithdrawal", "done", 0)
  /\ UNCHANGED <<now, inv, isRunning, pc, list, cur, results, ret, listed,
                 creditAt, job, retry, paid, plan, deposit, created>>

ApproveDepositCheck ==
  /\ handler["approveDeposit"].pc = "idle"
  /\ handler' = Answer("approveDeposit",
                        IF deposit.status # "PENDING"
                          THEN "refused" ELSE "checked", 0)
  /\ UNCHANGED <<now, inv, balance, ledger, isRunning, pc, list, cur,
                 results, ret, listed, creditAt, job, retry, paid, plan,
                 withdrawal, deposit, created>>
ApproveDepositCommit ==
  /\ handler["approveDeposit"].pc = "checked"
  /\ deposit' = [deposit EXCEPT !.status = "APPROVED"]
  /\ balance' = [balance EXCEPT ![deposit.user] =
                   Increment(@, handler["approveDeposit"].balance_usd,
                             deposit.amount_usd)]
  /\ ledger' = Append(ledger, Entry(deposit.user, "DEPOSIT",
                                    deposit.amount_usd, 0))
  /\ handler' = Answer("approveDeposit", "done", 0)
  /\ UNCHANGED <<now, inv, isRunning, pc, list, cur, results, ret, listed,
                 creditAt, job, retry, paid, plan, withdrawal, created>>

\* the transaction of a handler throws: nothing is written
HandlerFail(h) ==
  /\ handler[h].pc = "checked"
  /\ handler' = Answer(h, "failed", 0)
  /\ UNCHANGED <<now, inv, balance, ledger, isRunning, pc, list, cur,
                 results, ret, listed, creditAt, job, retry, paid, plan,
                 withdrawal, deposit, created>>

\* The holder has Funds from an approved deposit, has requested a
\* withdrawal (createWithdrawal writes the request and its row of the
\* transactions table, the balance is left alone) and has sent a deposit.
OpeningRows == << Entry(Holder, "DEPOSIT", Funds, 0),
                 Entry(Holder, "WITHDRAWAL", -WithdrawAmount, 0) >>
OpeningBalance(u) == IF u = Holder THEN Funds ELSE 0
\* no run has taken place since the investments were created
RequestsFrom == MaxTime - 1
InitAccounts ==
  /\ now = RequestsFrom
  /\ inv = [k \in InvIds |-> [status |-> "ACTIVE", total_earned |-> 0]]
  /\ balance = [u \in Users |-> OpeningBalance(u)]
  /\ ledger = OpeningRows
  /\ isRunning = [p \in Procs |-> FALSE]
  /\ pc = [i \in AllInvocs |-> "idle"]
  /\ list = [i \in AllInvocs |-> <<>>]
  /\ cur = [i \in AllInvocs |-> NoCall]
  /\ results = [i \in AllInvocs |-> NoResults]
  /\ ret = NoReturn
  /\ listed = [i \in AllInvocs |-> NoListing]
  /\ creditAt = [k \in InvIds |-> -1]
  /\ job = [registered |-> TRUE, task |-> "Scheduled", isRunning |-> FALSE,
            destroyed |-> FALSE]
  /\ retry = 0
  /\ paid = [i \in AllInvocs |-> 0]
  /\ plan = [p \in PlanNames |-> [daily_percentage |-> DailyPct(p),
                                  duration_days |-> DurationDays(p)]]
  /\ withdrawal = [status |-> "PENDING", user |-> Holder,
                   amount_usd |-> WithdrawAmount]
  /\ deposit = [status |-> "PENDING", user |-> Holder,
                amount_usd |-> DepositAmount]
  /\ handler = [h \in Handlers |-> NoRequest]
  /\ created = << >>

\* A request is served in milliseconds and a tick is a part of a day: the
\* requests of this specification arrive at one moment of the clock, during
\* or between the runs of the cron callback.  The store serves every
\* statement of the runs; a handler's transaction commits or throws.
RunStep(i) ==
  \/ ExecuteStart(i)
  \/ ListOk(i)
  \/ Begin(i)
  \/ TxStep(i)
  \/ TxCommit(i)
  \/ Email(i, TRUE)
  \/ Account(i)
  \/ Finish(i)
NextAccounts ==
  \/ (\A h \in Handlers : handler[h].pc = "idle") /\ Settled /\ Tick
  \/ (Settled /\ RunStep("cron")) \/ Resume("cron")
  \/ CreateInvestmentCheck
  \/ CreateInvestmentCommit
  \/ ApproveWithdrawalCheck
  \/ ApproveWithdrawalCommit
  \/ ApproveDepositCheck
  \/ ApproveDepositCommit
  \/ \E h \in Handlers : HandlerFail(h)
SpecAccounts == InitAccounts /\ [][NextAccounts]_vars


\* ================================================================ claims
InFlight(i)  == pc[i] \in {"listing", "loop", "tx", "email", "called"}
Running(p)   == {i \in AllInvocs : ProcOf(i) = p /\ InFlight(i)}

\* a call of processInvestment on investment k by invocation i starts in
\* this step
CallBegins(i, k) ==
  /\ pc[i] = "loop"
  /\ list[i] # << >>
  /\ Head(list[i]).id = k
  /\ pc'[i] # "loop"

\* ledger rows written for investment k, and the sum of their amounts
RowsOf(k) == {n \in DOMAIN ledger : ledger[n].inv = k}
RECURSIVE Amounts(_)
Amounts(l) == IF l = << >> THEN 0 ELSE Head(l).amount + Amounts(Tail(l))
LedgerSum(k) == LET ofK(e) == e.inv = k IN Amounts(SelectSeq(ledger, ofK))

\* the contract, from the investment's own columns
ContractDays(k) == (EndDate(k) - StartDate(k)) \div TicksPerDay
WholeDays(k, t) ==
  CHOOSE d \in 0..MaxTime :
    d * TicksPerDay <= t - StartDate(k) /\ t - StartDate(k) < (d + 1) * TicksPerDay
Contractual(k, d) == (AmountUsd(k) * DailyPercent(k) * d) \div (100 * PctScale)
ContractualTotal(k) == Contractual(k, ContractDays(k))

\* ---------------------------------------------------------------- C1
\* C1  Single-flight: at most one invocation of execute per process is past
\* the guard; an invocation made while another one of the same process is in
\* progress returns at once with 'Job already running' and neither reads the
\* investments nor changes any investment, balance or ledger row.
C1_TurnedAway ==
  \A i \in AllInvocs :
    (/\ pc[i] = "idle"
     /\ pc'[i] # "idle"
     /\ Running(ProcOf(i)) # {})
    => /\ pc'[i] = "returned"
       /\ ret' = AlreadyRunning(i)
       /\ list'[i] = list[i]
       /\ UNCHANGED <<inv, balance, ledger>>
C1_SingleFlight ==
  /\ [](\A p \in Procs : Cardinality(Running(p)) <= 1)
  /\ [][C1_TurnedAway]_vars
C1_Witness ==
  \E i, j \in ServerInvocs :
    /\ i # j
    /\ pc[i] = "returned"
    /\ ret = AlreadyRunning(i)
    /\ pc[j] = "tx"
    /\ cur[j].pos > 0

\* ---------------------------------------------------------------- C2
\* C2  Conservation: for every investment the amounts of the ledger rows
\* written for it (daily PROFIT rows, final PROFIT row, completion row) add
\* up to its total_earned.
C2_Conservation == \A k \in InvIds : LedgerSum(k) = inv[k].total_earned
C2_Witness ==
  \E k \in InvIds :
    /\ inv[k].status = "COMPLETED"
    /\ Cardinality(RowsOf(k)) >= 3
    /\ \E n \in RowsOf(k) : ledger[n].type = "INVESTMENT"

\* ---------------------------------------------------------------- C3
\* C3  Ceiling: every investment, completed or not, has
\* total_earned <= principal * rate * duration_days / 100.
C3_Ceiling == \A k \in InvIds : inv[k].total_earned <= ContractualTotal(k)
C3_Witness ==
  \E k \in InvIds :
    /\ inv[k].status = "ACTIVE"
    /\ inv[k].total_earned = ContractualTotal(k)
    /\ now >= EndDate(k)

\* ---------------------------------------------------------------- C4
\* C4  Idempotence of apply: a call of processInvestment on an investment
\* that the previous crediting call credited at this same time credits
\* nothing: it takes the 'no new profit' return and leaves balance,
\* total_earned and ledger as they are.
C4_SecondCallSkips ==
  \A i \in AllInvocs, k \in InvIds :
    (CallBegins(i, k) /\ creditAt[k] = now)
    => /\ pc'[i] = "called"
       /\ cur'[i].path = "skip"
       /\ cur'[i].profit = 0
       /\ UNCHANGED <<inv, balance, ledger>>
C4_Idempotent == [][C4_SecondCallSkips]_vars
C4_Witness ==
  \E i \in ServerInvocs, k \in InvIds :
    /\ pc[i] = "called"
    /\ cur[i].id = k
    /\ cur[i].path = "skip"
    /\ cur[i].at = creditAt[k]
    /\ inv[k].total_earned > 0

\* ---------------------------------------------------------------- C5
\* C5  Atomic credit and audit row: in every step the ledger only grows, each
\* account's balance changes by exactly the amounts of the rows added for it,
\* an investment row changes exactly when rows are added for it and its
\* total_earned changes by their amounts; a transaction that fails leaves
\* balance, investments and ledger untouched.
Added == SubSeq(ledger', Len(ledger) + 1, Len(ledger'))
C5_Step ==
  /\ Len(ledger') >= Len(ledger)
  /\ SubSeq(ledger', 1, Len(ledger)) = ledger
  /\ \A u \in Users :
       LET ofU(e) == e.user = u
       IN  balance'[u] - balance[u] = Amounts(SelectSeq(Added, ofU))
  /\ \A k \in InvIds :
       LET ofK(e) == e.inv = k
       IN  /\ inv'[k].total_earned - inv[k].total_earned = Amounts(SelectSeq(Added, ofK))
           /\ (inv'[k] # inv[k]) <=> (\E n \in DOMAIN Added : Added[n].inv = k)
  /\ \A i \in AllInvocs :
       (pc[i] = "tx" /\ pc'[i] = "called") => UNCHANGED <<inv, balance, ledger>>
C5_Atomic == [][C5_Step]_vars
C5_Witness ==
  \E i \in ServerInvocs :
    /\ pc[i] = "called"
    /\ cur[i].path = "failed"
    /\ cur[i].pos >= 2
    /\ ledger # << >>

\* ---------------------------------------------------------------- C6
\* C6  No double credit without the flag: whatever runs interleave, the
\* amounts credited to an investment never exceed what its contract has
\* accrued up to now.  (Stated for the two-process system, where the flag is
\* not shared; processInvestment computes from the listed row.)
Min(a, b) == IF a <= b THEN a ELSE b
ContractualToDate(k) == Contractual(k, Min(WholeDays(k, now), ContractDays(k)))
C6_NoDoubleCredit ==
  \A k \in InvIds : /\ LedgerSum(k) <= ContractualToDate(k)
                    /\ inv[k].total_earned <= ContractualToDate(k)

\* ---------------------------------------------------------------- C7
\* C7  Bulkhead: a run in which some investment failed still returns a
\* summary; every listed investment was handled (processed or reported as an
\* error) and every listed investment other than the failed ones holds what it
\* is owed: the contractual total if it was completed, otherwise the amount
\* accrued at the time it was processed, which lies between the accrual at
\* listing time and the accrual now.
Failures(r) == {r.errors[n] : n \in DOMAIN r.errors}
HoldsOwed(k, since) ==
  IF inv[k].status = "COMPLETED"
    THEN inv[k].total_earned = ContractualTotal(k)
    ELSE /\ inv[k].total_earned >= Contractual(k, WholeDays(k, since))
         /\ inv[k].total_earned <= Contractual(k, WholeDays(k, now))
C7_Bulkhead ==
  \A i \in AllInvocs :
    (/\ pc[i] = "returned"
     /\ listed[i].ids # {}
     /\ ret.results.errors # << >>)
    => /\ ret.success
       /\ ret.results.totalInvestments = Cardinality(listed[i].ids)
       /\ ret.results.processedInvestments + Len(ret.results.errors)
            = ret.results.totalInvestments
       /\ \A k \in listed[i].ids \ Failures(ret.results) :
            HoldsOwed(k, listed[i].at)
C7_Witness ==
  \E i \in ServerInvocs, a, b \in InvIds :
    /\ pc[i] = "returned"
    /\ ret.success
    /\ listed[i].ids = InvIds
    /\ ret.results.errors = <<a>>
    /\ b # a
    /\ creditAt[b] >= listed[i].at
    /\ ret.results.totalProfitDistributed > 0
    /\ inv[a].total_earned = 0

\* ---------------------------------------------------------------- C8
\* C8  Flag release: the step in which an invocation that had set the flag
\* returns (normally, with failures, or because listing threw) leaves the
\* flag false, and the flag is never set while no invocation of the process
\* is in progress.
C8_ReturnClears ==
  \A i \in AllInvocs :
    (InFlight(i) /\ pc'[i] = "returned") => ~isRunning'[ProcOf(i)]
C8_FlagReleased ==
  /\ [](\A p \in Procs : isRunning[p] => Running(p) # {})
  /\ [][C8_ReturnClears]_vars
C8_Witness ==
  \E i \in ServerInvocs :
    /\ pc[i] = "returned"
    /\ ret.by = i
    /\ ~ret.success
    /\ ret.message = "Daily profit calculation failed"
    /\ ~isRunning[ProcOf(i)]
    /\ ledger # << >>

\* ---------------------------------------------------------------- C9
\* C9  Daily accrual: a call on an investment at a time before its end, with
\* d whole days elapsed since its start, credits nothing and reports no error
\* when d < 1; when it commits, total_earned becomes principal*rate*d/100, the
\* owner's balance grows by exactly that minus the previous total_earned, and
\* the status stays ACTIVE.
C9_Step ==
  \A i \in AllInvocs, k \in InvIds :
    /\ (CallBegins(i, k) /\ now < EndDate(k))
       => /\ WholeDays(k, now) < 1
               => /\ pc'[i] = "called"
                  /\ cur'[i].path = "skip"
                  /\ cur'[i].profit = 0
          /\ (WholeDays(k, now) >= 1
              /\ Contractual(k, WholeDays(k, now)) > inv[k].total_earned)
               => /\ pc'[i] = "tx"
                  /\ cur'[i].path = "daily"
    /\ (/\ pc[i] = "tx"
        /\ pc'[i] = "email"
        /\ cur[i].id = k
        /\ cur[i].at < EndDate(k))
       => LET d == WholeDays(k, cur[i].at)
          IN  /\ d >= 1
              /\ inv'[k].total_earned = Contractual(k, d)
              /\ balance'[UserOf(k)] - balance[UserOf(k)]
                   = Contractual(k, d) - inv[k].total_earned
              /\ inv'[k].status = "ACTIVE"
C9_DailyAccrual == [][C9_Step]_vars
C9_Witness ==
  \E i \in ServerInvocs :
    /\ pc[i] = "email"
    /\ cur[i].path = "daily"
    /\ cur[i].at < EndDate(cur[i].id)
    /\ WholeDays(cur[i].id, cur[i].at) = 1
    /\ inv[cur[i].id].total_earned = 150
    /\ balance[UserOf(cur[i].id)] = 150
    /\ inv[cur[i].id].status = "ACTIVE"

\* --------------------------------------------------------------- C10
\* C10  A call on an investment for which no further whole day
\* has elapsed since it was last credited is skipped: it takes the 'no new
\* profit' return.
SameDayAsCredit(k) ==
  /\ creditAt[k] >= 0
  /\ WholeDays(k, now) = WholeDays(k, creditAt[k])
C10_SkipStep ==
  \A i \in AllInvocs, k \in InvIds :
    (CallBegins(i, k) /\ SameDayAsCredit(k))
    => /\ pc'[i] = "called"
       /\ cur'[i].path = "skip"
C10_RerunSkips == [][C10_SkipStep]_vars

\* --------------------------------------------------------------- C11
\* C11  Completion: a call on an ACTIVE investment whose end date has passed
\* takes the completion path with a final credit of the contractual total
\* minus total_earned; when it commits, the owner's balance grows by exactly
\* that, total_earned is the contractual total and the status is COMPLETED.
\* From then on no run lists the investment, no call is made on it and its
\* row never changes.
C11_Step ==
  \A i \in AllInvocs, k \in InvIds :
    /\ (CallBegins(i, k) /\ now > EndDate(k) /\ inv[k].status = "ACTIVE")
       => /\ pc'[i] = "tx"
          /\ cur'[i].path = "complete"
          /\ cur'[i].profit = ContractualTotal(k) - inv[k].total_earned
    /\ (/\ pc[i] = "tx"
        /\ pc'[i] = "email"
        /\ cur[i].id = k
        /\ cur[i].at > EndDate(k))
       => /\ balance'[UserOf(k)] - balance[UserOf(k)]
               = ContractualTotal(k) - inv[k].total_earned
          /\ inv'[k] = [status |-> "COMPLETED",
                        total_earned |-> ContractualTotal(k)]
    /\ inv[k].status = "COMPLETED"
       => /\ inv'[k] = inv[k]
          /\ ~CallBegins(i, k)
          /\ (pc[i] = "listing" /\ pc'[i] = "loop") => k \notin listed'[i].ids
C11_Completion == [][C11_Step]_vars
C11_Witness ==
  \E j \in ServerInvocs, k \in InvIds :
    /\ inv[k] = [status |-> "COMPLETED", total_earned |-> 300]
    /\ \E n \in RowsOf(k) : ledger[n].type = "PROFIT" /\ ledger[n].amount = 150
    /\ balance[UserOf(k)] = 300
    /\ pc[j] = "loop"
    /\ listed[j].ids # {}
    /\ k \notin listed[j].ids

\* --------------------------------------------------------------- C12
\* C12  Notification failures are non-fatal: the step in which the send
\* after a committed transaction succeeds or fails leaves investments,
\* balances and ledger as committed and does not turn the call into a
\* failure; a call whose send failed is then counted as processed, with its
\* amount, and not as an error.
C12_Step ==
  \A i \in AllInvocs :
    /\ (pc[i] = "email" /\ pc'[i] # "email")
       => /\ UNCHANGED <<inv, balance, ledger>>
          /\ pc'[i] = "called"
          /\ cur'[i].path = cur[i].path
          /\ cur'[i].profit = cur[i].profit
    /\ (/\ pc[i] = "called"
        /\ pc'[i] = "loop"
        /\ cur[i].path \in {"daily", "complete"}
        /\ ~cur[i].emailSent)
       => /\ UNCHANGED <<inv, balance, ledger>>
          /\ results'[i].processedInvestments
               = results[i].processedInvestments + 1
          /\ results'[i].totalProfitDistributed
               = results[i].totalProfitDistributed + cur[i].profit
          /\ results'[i].errors = results[i].errors
C12_NotificationNonFatal == [][C12_Step]_vars
C12_Witness ==
  \E i \in ServerInvocs :
    /\ pc[i] = "returned"
    /\ ret.success
    /\ ret.results.processedInvestments >= 1
    /\ ret.results.totalProfitDistributed > 0
    /\ ret.results.emailsSent = 0
    /\ ret.results.errors = << >>
    /\ \E k \in listed[i].ids : inv[k].total_earned > 0 /\ creditAt[k] >= listed[i].at

\* --------------------------------------------------------------- C13
\* C13  Coordinator-level failure: when listing the active investments
\* fails, the run returns in that step without changing any investment,
\* balance or ledger row, the flag is released, and the value returned is
\* the top-level failure with a summary of zero listed, zero processed, zero
\* distributed and no per-investment errors.
C13_Step ==
  \A i \in AllInvocs :
    (pc[i] = "listing" /\ pc'[i] \notin {"listing", "loop"})
    => /\ pc'[i] = "returned"
       /\ UNCHANGED <<inv, balance, ledger>>
       /\ ~isRunning'[ProcOf(i)]
       /\ ret'.by = i
       /\ ~ret'.success
       /\ ret'.message = "Daily profit calculation failed"
       /\ ret'.results = NoResults
C13_ListingFailure == [][C13_Step]_vars
C13_Witness ==
  \E i \in ServerInvocs, k \in InvIds :
    /\ pc[i] = "returned"
    /\ ret.by = i
    /\ ~ret.success
    /\ ret.results.processedInvestments = 0
    /\ listed[i] = NoListing
    /\ ~isRunning[ProcOf(i)]
    /\ inv[k].status = "ACTIVE"
    /\ WholeDays(k, now) >= 1
    /\ inv[k].total_earned = 0
    /\ ledger = << >>

\* --------------------------------------------------------------- C14
\* C14  Re-entrancy is not an error: the value a turned-away call returns
\* differs from the value of a failed run, and what its caller (the cron
\* callback, the admin handler) then logs or answers differs from what that
\* caller logs or answers for a failed run.
C14_NotAFailure ==
  \A i \in AllInvocs :
    /\ AlreadyRunning(i) # Caught(i)
    /\ (pc[i] = "returned" /\ ret = AlreadyRunning(i))
       => /\ Says(i, ret) # "failed"
          /\ Says(i, ret) # Says(i, Caught(i))

\* --------------------------------------------------------------- C15
\* C15  Scheduler state machine: the daily job is always either Stopped or
\* Scheduled; stopJob leaves it Stopped and startJob leaves it Scheduled;
\* no other step, the firing of the timer and the run it starts included,
\* changes that; and the cron callback calls execute only while the job is
\* Scheduled.
C15_Step ==
  /\ StopJob => job'.task = "Stopped"
  /\ StartJob => job'.task = "Scheduled"
  /\ (job' # job)
       => /\ \A i \in AllInvocs : pc'[i] = pc[i]
          /\ job'.task = "Stopped" <=> ~job'.isRunning
  /\ (pc["cron"] = "idle" /\ pc'["cron"] # "idle")
       => /\ job.task = "Scheduled"
          /\ job' = job
C15_StateMachine ==
  /\ [](job.task \in {"Stopped", "Scheduled"})
  /\ [][C15_Step]_vars
C15_Witness ==
  /\ job.registered
  /\ job.task = "Stopped"
  /\ ~job.isRunning
  /\ pc["cron"] = "tx"
  /\ pc["admin"] = "returned"
  /\ ret = AlreadyRunning("admin")
  /\ ledger # << >>

\* --------------------------------------------------------------- C16
\* C16  Completion boundary: a call on an ACTIVE investment made at or after
\* its end date, the instant of the end date included, takes the completion
\* path and not the elapsed-day accrual.
C16_Step ==
  \A i \in AllInvocs, k \in InvIds :
    (CallBegins(i, k) /\ now >= EndDate(k) /\ inv[k].status = "ACTIVE")
    => cur'[i].path = "complete"
C16_CompletesAtEnd == [][C16_Step]_vars

\* --------------------------------------------------------------- C17
\* C17  Completed investments are immutable: a call of processInvestment on
\* a listed row whose stored status is already COMPLETED (the list was taken
\* before another run completed it) returns without entering a transaction
\* and writes nothing.  (Stated for the two-process system, the one in which
\* a list can outlive the completion of a row it holds.)
C17_Step ==
  \A i \in AllInvocs, k \in InvIds :
    (CallBegins(i, k) /\ inv[k].status = "COMPLETED")
    => /\ pc'[i] = "called"
       /\ cur'[i].path = "skip"
       /\ UNCHANGED <<inv, balance, ledger>>
C17_CompletedImmutable == [][C17_Step]_vars

\* --------------------------------------------------------------- C18
\* C18  Invariant violations are surfaced, not clamped: a call on an ACTIVE
\* investment whose stored total_earned (the value the call was listed with)
\* exceeds what the calculation allows at that time, on the daily path or at
\* completion, ends as a per-investment failure and changes neither
\* total_earned nor the balance.  (Stated for the two-process system, where
\* such a row arises from the double credit of C6.)
Allowed(k, t) ==
  IF t > EndDate(k) THEN Contractual(k, ContractDays(k))
                    ELSE Contractual(k, WholeDays(k, t))
Excess(i, k) ==
  /\ inv[k].status = "ACTIVE"
  /\ Head(list[i]).total_earned = inv[k].total_earned
  /\ inv[k].total_earned > Allowed(k, now)
C18_Step ==
  \A i \in AllInvocs, k \in InvIds :
    (CallBegins(i, k) /\ Excess(i, k))
    => /\ pc'[i] = "called"
       /\ cur'[i].path = "failed"
       /\ UNCHANGED <<inv, balance>>
C18_ExcessSurfaced == [][C18_Step]_vars

\* --------------------------------------------------------------- C19
\* C19  Monotonic earnings: no step, the completing one included, lowers the
\* total_earned of an investment.
C19_Step == \A k \in InvIds : inv'[k].total_earned >= inv[k].total_earned
C19_Monotonic == [][C19_Step]_vars
C19_Witness ==
  \E i \in ServerInvocs :
    /\ pc[i] = "email"
    /\ cur[i].path = "complete"
    /\ cur[i].profit = 0
    /\ inv[cur[i].id] = [status |-> "COMPLETED",
                         total_earned |-> ContractualTotal(cur[i].id)]
    /\ ContractualTotal(cur[i].id) > 0

\* --------------------------------------------------------------- C20
\* C20  Recovery on the next run: a transaction that fails leaves the
\* investment ACTIVE with its total_earned, the balance and the ledger as
\* they were; the investment is listed by every later run until a
\* transaction for it commits; and that commit credits the whole gap:
\* total_earned becomes the contractual amount at the time of the call, the
\* balance grows by exactly the difference, and the ledger rows of the
\* investment add up to total_earned.
ContractualAt(k, t) == Contractual(k, Min(WholeDays(k, t), ContractDays(k)))
C20_Step ==
  \A i \in AllInvocs, k \in InvIds :
    /\ (pc[i] = "tx" /\ pc'[i] = "called" /\ cur[i].id = k)
       => /\ inv'[k] = inv[k]
          /\ inv'[k].status = "ACTIVE"
          /\ UNCHANGED <<balance, ledger>>
          /\ retry' = k
    /\ (retry = k /\ pc[i] = "listing" /\ pc'[i] = "loop")
       => k \in listed'[i].ids
    /\ (retry = k /\ pc[i] = "tx" /\ pc'[i] = "email" /\ cur[i].id = k)
       => /\ inv'[k].total_earned = ContractualAt(k, cur[i].at)
          /\ balance'[UserOf(k)] - balance[UserOf(k)]
               = ContractualAt(k, cur[i].at) - inv[k].total_earned
          /\ LET ofK(e) == e.inv = k
             IN  Amounts(SelectSeq(ledger', ofK)) = inv'[k].total_earned
C20_Recovery ==
  /\ [](retry # 0 => inv[retry].status = "ACTIVE" \/ \E i \in AllInvocs :
                         cur[i].id = retry /\ pc[i] \in {"email", "called"})
  /\ [][C20_Step]_vars
C20_Witness ==
  \E i \in ServerInvocs :
    /\ pc[i] = "called"
    /\ retry # 0
    /\ cur[i].id = retry
    /\ cur[i].path = "daily"
    /\ cur[i].profit = 2 * Contractual(retry, 1)
    /\ inv[retry] = [status |-> "ACTIVE",
                     total_earned |-> 2 * Contractual(retry, 1)]
    /\ listed[i].at > StartDate(retry) + TicksPerDay

\* --------------------------------------------------------------- C29
\* C29  A turned-away call does not release the flag: the step in which a
\* call returns 'Job already running' leaves the flag of its process set,
\* the flag stays set for as long as the run in progress has not returned,
\* and every call made in that time is turned away as well.
C29_Step ==
  \A i \in AllInvocs :
    /\ (pc[i] = "idle" /\ pc'[i] = "returned")
       => /\ isRunning[ProcOf(i)]
          /\ isRunning'[ProcOf(i)]
          /\ Running(ProcOf(i)) # {}
    /\ (pc[i] = "idle" /\ pc'[i] # "idle" /\ Running(ProcOf(i)) # {})
       => ret' = AlreadyRunning(i)
C29_FlagKept ==
  /\ [](\A p \in Procs : Running(p) # {} => isRunning[p])
  /\ [][C29_Step]_vars
C29_Witness ==
  \E i, j \in ServerInvocs :
    /\ i # j
    /\ pc[i] = "returned"
    /\ ret = AlreadyRunning(i)
    /\ pc[j] = "email"
    /\ isRunning[ProcOf(j)]
    /\ results[j].processedInvestments >= 1

\* --------------------------------------------------------------- C21
\* C21  Notification ordering: a call reaches its notification send only in
\* the step in which its transaction commits; emailSent becomes true only
\* in the send step; a call whose transaction aborted or that was skipped
\* returns with emailSent false, no send having been attempted.
C21_Step ==
  \A i \in AllInvocs :
    /\ (pc'[i] = "email" /\ pc[i] # "email")
       => /\ pc[i] = "tx"
          /\ cur[i].pos = Len(TxOps(cur[i]))
          /\ Len(ledger') > Len(ledger)
    /\ (cur'[i].emailSent /\ ~cur[i].emailSent) => pc[i] = "email"
C21_NotifyAfterCommit ==
  /\ [](\A i \in AllInvocs :
          (pc[i] = "called" /\ cur[i].path \in {"skip", "failed"})
          => ~cur[i].emailSent)
  /\ [][C21_Step]_vars
C21_Witness ==
  \E i \in ServerInvocs :
    /\ pc[i] = "called"
    /\ cur[i].path = "failed"
    /\ cur[i].pos >= 1
    /\ ~cur[i].emailSent
    /\ results[i].emailsSent = 1
    /\ results[i].processedInvestments = 1

\* --------------------------------------------------------------- C28
\* C28  Accurate run summary: when a run returns its summary, the total
\* distributed equals what the run's committed transactions added to
\* balances, the number listed is the number of rows findMany returned, and
\* every listed investment is counted once, as processed or as an error.
C28_AccurateSummary ==
  \A i \in AllInvocs :
    pc[i] = "returned"
    => /\ ret.results.totalProfitDistributed = paid[i]
       /\ ret.results.totalInvestments = Cardinality(listed[i].ids)
       /\ ret.results.totalInvestments
            = ret.results.processedInvestments + Len(ret.results.errors)
       /\ Cardinality(Failures(ret.results)) = Len(ret.results.errors)
       /\ Failures(ret.results) \subseteq listed[i].ids
C28_Witness ==
  \E i \in ServerInvocs :
    /\ pc[i] = "returned"
    /\ ret.success
    /\ ret.results.totalInvestments = 2
    /\ ret.results.processedInvestments = 1
    /\ Len(ret.results.errors) = 1
    /\ ret.results.completedInvestments = 1
    /\ paid[i] > 0
    /\ ret.results.totalProfitDistributed = paid[i]

\* --------------------------------------------------------------- C22
\* C22  One ledger entry per application: every transaction that commits,
\* daily credit or completion, appends exactly one ledger row.
Commits(i) == pc[i] = "tx" /\ pc'[i] = "email"
C22_OneRowStep ==
  \A i \in AllInvocs : Commits(i) => Len(ledger') = Len(ledger) + 1
C22_OneEntry == [][C22_OneRowStep]_vars

\* C22 (amended)  Ledger rows are appended only by a committing transaction,
\* in the step that changes the balance and the investment.  A daily credit
\* appends exactly one PROFIT row of the credited amount.  A completion
\* appends one completion row (type INVESTMENT, amount 0), preceded by one
\* PROFIT row of the final credit when that credit is positive.
C22_RowsStep ==
  /\ ledger' # ledger => \E i \in AllInvocs : Commits(i)
  /\ \A i \in AllInvocs :
       Commits(i)
       => LET k == cur[i].id
              u == UserOf(k)
          IN  /\ balance'[u] - balance[u] = cur[i].profit
              /\ cur[i].path = "daily"
                   => Added = << Entry(u, "PROFIT", cur[i].profit, k) >>
              /\ (cur[i].path = "complete" /\ cur[i].profit > 0)
                   => Added = << Entry(u, "PROFIT", cur[i].profit, k),
                                 Entry(u, "INVESTMENT", 0, k) >>
              /\ (cur[i].path = "complete" /\ cur[i].profit = 0)
                   => Added = << Entry(u, "INVESTMENT", 0, k) >>
C22_EntriesPerApplication == [][C22_RowsStep]_vars
C22_Witness ==
  \E i \in ServerInvocs :
    /\ pc[i] = "email"
    /\ cur[i].path = "complete"
    /\ cur[i].profit > 0
    /\ Len(ledger) >= 3
    /\ ledger[Len(ledger)].type = "INVESTMENT"
    /\ ledger[Len(ledger) - 1] =
         Entry(UserOf(cur[i].id), "PROFIT", cur[i].profit, cur[i].id)
    /\ ledger[Len(ledger) - 2].type = "PROFIT"

\* --------------------------------------------------------------- C24
\* C24  Stop does not cancel a run in progress: stopJob, stopAllJobs and
\* shutdown change nothing but the job entry, whatever runs are in progress;
\* a run in progress can always take its next step, whatever the state of
\* the job; and a run that returns its summary has handled every row it
\* listed and has released the flag.
C24_Step ==
  (job' # job)
  => UNCHANGED <<now, inv, balance, ledger, isRunning, pc, list, cur, results,
                 ret, listed>>
C24_RunsToTheEnd ==
  /\ [](\A i \in ServerInvocs :
          /\ (InFlight(i) /\ Settled) => ENABLED Step(i)
          /\ (pc[i] = "returned" /\ ret.success)
             => /\ ret.results.processedInvestments + Len(ret.results.errors)
                     = Cardinality(listed[i].ids)
                /\ ~isRunning[ProcOf(i)])
  /\ [][C24_Step]_vars
C24_Witness ==
  /\ pc["cron"] = "returned"
  /\ ret.success
  /\ ~job.registered
  /\ job.task = "Stopped"
  /\ listed["cron"].ids = InvIds
  /\ ret.results.processedInvestments = NumInv
  /\ ret.results.totalProfitDistributed > 0
  /\ ~isRunning["server"]

\* --------------------------------------------------------------- C30
\* C30  Status reflects the timer: while the job is Stopped the status
\* reports it as not running and not scheduled; while it is Scheduled
\* (first scheduled, or started again) the status reports it as running and
\* scheduled.
C30_StatusReflectsTimer ==
  job.registered
  => LET st == GetJobsStatus(job)[1]
     IN  /\ job.task = "Stopped"
              => ~st.isRunning /\ st.nextRun = "Not scheduled"
         /\ job.task = "Scheduled"
              => st.isRunning /\ st.nextRun = "Scheduled"

\* --------------------------------------------------------------- C25
\* C25  Run termination with a fire-and-forget send: a run never waits for
\* a notification; while the send of one investment has not completed, the
\* run has a step of its own to take (accounting the call, the next
\* investment, the return that clears the flag).
StepOfRun(i) ==
  \/ ListOk(i)
  \/ ListFail(i)
  \/ Begin(i)
  \/ TxStep(i)
  \/ TxCommit(i)
  \/ TxFail(i)
  \/ Account(i)
  \/ Finish(i)
C25_SendNeverAwaited ==
  \A i \in AllInvocs : pc[i] = "email" => ENABLED StepOfRun(i)

\* --------------------------------------------------------------- C23
\* C23  Terms captured at creation: whatever is done to the plan rows after
\* an investment was created, every committed application leaves the
\* investment's total at the amount its own columns give (amount, rate,
\* start and end date, for the whole days elapsed at the call, at most the
\* contract's days), and a completed investment has earned the contractual
\* total of those columns.
C23_Step ==
  \A i \in AllInvocs :
    Commits(i)
    => inv'[cur[i].id].total_earned = ContractualAt(cur[i].id, cur[i].at)
C23_TermsCaptured ==
  /\ [](\A k \in InvIds :
          inv[k].status = "COMPLETED"
          => inv[k].total_earned = ContractualTotal(k))
  /\ [][C23_Step]_vars

\* --------------------------------------------------------------- C26
\* C26  No lost balance update: whatever the interleaving of a run's
\* transactions with a deposit approval, a withdrawal approval and an
\* investment creation on the same account, the account's balance is its
\* opening balance plus the amounts of all rows committed since: the
\* credits of the run (PROFIT), the deposit (DEPOSIT), minus the
\* withdrawal (WITHDRAWAL) and the investment (INVESTMENT).
SinceOpening == SubSeq(ledger, Len(OpeningRows) + 1, Len(ledger))
C27_NonNegative == \A u \in Users : balance[u] >= 0

=============================================================================
